---- MODULE Spec2Model ----
(***************************************************************************)
(* The catalog persistence engine of cataloger_crew/tools/catalog_tools.py *)
(* as a state machine over the files it keeps: the primary catalog.json,   *)
(* the backups directory and the export files.                             *)
(*                                                                         *)
(* Abstractions: the wall clock is a counter of whole seconds (the ids and *)
(* the backup names are formatted to the second; the ISO timestamps with   *)
(* microseconds are kept to the second as well); a file is its decoded     *)
(* content; str hash values are drawn at start-up (CPython seeds the str   *)
(* hash per process).                                                      *)
(***************************************************************************)
EXTENDS Integers, Sequences, FiniteSets, TLC

VARIABLES primary, backups, exports, exported, now, hashOf, result, calls, faults,
          corrupts, pc, loc

vars     == <<primary, backups, exports, exported, now, hashOf, result, calls, faults,
              corrupts, pc, loc>>

----------------------------------------------------------------------------
(* Bounds of the model. *)

MaxTime == 1
MaxCalls == 3
MaxFaults == 1
MaxCorrupt == 1
MaxRaceCalls == 2
MaxExports == 2
MaxReadCalls == 2

----------------------------------------------------------------------------
(* Program constants. *)

HashBuckets == 10000
ExcellentMin == 8
GoodMin == 6
FairMin == 4
DefaultQuality == 5
UrlMatchScore == 100
TitleMatchScore == 50
SummaryMatchScore == 30
FlagThreshold == 60

----------------------------------------------------------------------------
(* Input domains. *)

(* A URL is its sequence of characters: https://mit.edu/p, *)
(* http://x.com/p and, without a scheme, x.org/p.          *)
UrlEdu == <<"h", "t", "t", "p", "s", ":", "/", "/",
            "m", "i", "t", ".", "e", "d", "u", "/", "p">>
UrlCom == <<"h", "t", "t", "p", ":", "/", "/",
            "x", ".", "c", "o", "m", "/", "p">>
UrlOrg == <<"x", ".", "o", "r", "g", "/", "p">>
URLs == {UrlEdu, UrlCom, UrlOrg}

(* str hash values a process may draw: the first two URLs fall in one    *)
(* bucket (7 and 10007) or in two (7 and 8), the third in its own.       *)
HashChoices ==
    { [u \in URLs |-> CASE u = UrlEdu -> 7
                        [] u = UrlCom -> h
                        [] OTHER -> 9] : h \in {10007, 8} }

MetaEmpty == ""
MetaObject == "{\"content_type\": \"article\", \"technical_level\": \"advanced\"}"
MetaIntType == "{\"content_type\": 5}"
MetaNotJson == "not json"
MetaNumber == "5"
MetaAcademic == "{\"content_type\": \"academic\"}"

(* A comma-separated tag string is its sequence of characters. *)
TagsAB == <<"a", ",", " ", "b">>
TagsB == <<"b">>
TagsADup == <<"a", ",", ",", "a", " ">>
TagsNone == <<>>
TagsBA == <<" ", "b", " ", ",", "a">>

(* A text is its sequence of characters; its words have one letter. *)
TitleQ == <<"Q", " ", "c", " ", "a", " ", "b">>
TitleD == <<"d", " ", "l">>
SummaryQ == <<"r", " ", "o", " ", "q">>
SummaryD == <<"n", " ", "s">>
NoText == <<>>

(* Texts that only the duplicate detector is asked about: the words of  *)
(* TitleQ in another case and spacing, the words of TitleQ and of       *)
(* SummaryQ with one more, and a text without a word.                   *)
TitleQLower == <<"q", " ", " ", "C", " ", "A", " ", "b">>
TitleQMore == <<"Q", " ", "c", " ", "a", " ", "b", " ", "t">>
SummaryQMore == <<"r", " ", "o", " ", "q", " ", "x">>
BlankText == <<" ">>

Inputs ==
    { [title |-> TitleQ, url |-> UrlEdu, content_summary |-> SummaryQ,
       tags |-> TagsAB, metadata |-> MetaObject, quality_score |-> 9],
      [title |-> TitleD, url |-> UrlEdu, content_summary |-> SummaryD,
       tags |-> TagsB, metadata |-> MetaEmpty, quality_score |-> DefaultQuality],
      [title |-> TitleQ, url |-> UrlCom, content_summary |-> SummaryQ,
       tags |-> TagsADup, metadata |-> MetaNotJson, quality_score |-> 3],
      [title |-> TitleD, url |-> UrlCom, content_summary |-> SummaryD,
       tags |-> TagsNone, metadata |-> MetaNumber, quality_score |-> 6],
      [title |-> TitleD, url |-> UrlCom, content_summary |-> SummaryQ,
       tags |-> TagsBA, metadata |-> MetaIntType, quality_score |-> 8] }

(* The candidates of the concurrent calls: one for each of two URLs. *)
RaceInputs == {inp \in Inputs : inp.metadata \in {MetaObject, MetaNotJson}}

(* The candidate of a call that has completed before the concurrent *)
(* calls begin.                                                      *)
EarlierInput ==
    [title |-> TitleD, url |-> UrlOrg, content_summary |-> SummaryD,
     tags |-> TagsB, metadata |-> MetaEmpty, quality_score |-> DefaultQuality]

----------------------------------------------------------------------------
(* Python dicts. *)

EmptyDict == [k \in {} |-> 0]

DictGet(d, k, default) == IF k \in DOMAIN d THEN d[k] ELSE default

DictSet(d, k, v) == [x \in (DOMAIN d) \cup {k} |-> IF x = k THEN v ELSE d[x]]

RECURSIVE SumOver(_, _)
SumOver(d, keys) ==
    IF keys = {} THEN 0
    ELSE LET k == CHOOSE x \in keys : TRUE
         IN  d[k] + SumOver(d, keys \ {k})

DictSum(d) == SumOver(d, DOMAIN d)

----------------------------------------------------------------------------
(* JSON values.  A scalar is tagged with its JSON type, so that the int 5  *)
(* and the str "5" are different values that become the same object key.   *)

JStr(s) == [t |-> "str", s |-> s]
JInt(s) == [t |-> "int", s |-> s]

(* json.dump writes every dict key as a string. *)
JsonKey(v) == JStr(v.s)

(* The dict read back from the dumped text of d: keys become strings, and  *)
(* of two keys dumped to the same string the later one wins.  A loaded     *)
(* dict holds str keys only, so a non-str key was inserted after them.     *)
JsonDict(d) ==
    [k \in {JsonKey(x) : x \in DOMAIN d} |->
        IF \E x \in DOMAIN d : x.t # "str" /\ JsonKey(x) = k
        THEN d[CHOOSE x \in DOMAIN d : x.t # "str" /\ JsonKey(x) = k]
        ELSE d[k]]

(* json.loads on the metadata strings of the input domain. *)
JsonLoads(text) ==
    CASE text = MetaObject ->
           [ok |-> TRUE, isObject |-> TRUE,
            fields |-> ("content_type" :> JStr("article")
                        @@ "technical_level" :> JStr("advanced"))]
      [] text = MetaIntType ->
           [ok |-> TRUE, isObject |-> TRUE,
            fields |-> ("content_type" :> JInt("5"))]
      [] text = MetaAcademic ->
           [ok |-> TRUE, isObject |-> TRUE,
            fields |-> ("content_type" :> JStr("academic"))]
      [] text = MetaNumber ->
           [ok |-> TRUE, isObject |-> FALSE, fields |-> EmptyDict]
      [] OTHER ->
           [ok |-> FALSE, isObject |-> FALSE, fields |-> EmptyDict]

(* meta_dict of create_catalog_entry. *)
ParseMetadata(text) ==
    IF text = "" THEN [isObject |-> TRUE, fields |-> EmptyDict]
    ELSE LET p == JsonLoads(text)
         IN  IF p.ok THEN [isObject |-> p.isObject, fields |-> p.fields]
             ELSE [isObject |-> TRUE,
                   fields |-> ("raw_metadata" :> JStr(text))]

----------------------------------------------------------------------------
(* Tag parsing: [tag.strip() for tag in tags.split(',') if tag.strip()] *)

IsSpace(c) == c = " "

RECURSIVE Split(_)
Split(s) ==
    IF \A i \in 1..Len(s) : s[i] # ","
    THEN <<s>>
    ELSE LET i == CHOOSE j \in 1..Len(s) :
                     s[j] = "," /\ \A m \in 1..(j - 1) : s[m] # ","
         IN  <<SubSeq(s, 1, i - 1)>> \o Split(SubSeq(s, i + 1, Len(s)))

RECURSIVE LStrip(_)
LStrip(s) == IF s # <<>> /\ IsSpace(Head(s)) THEN LStrip(Tail(s)) ELSE s

RECURSIVE RStrip(_)
RStrip(s) ==
    IF s # <<>> /\ IsSpace(s[Len(s)]) THEN RStrip(SubSeq(s, 1, Len(s) - 1))
    ELSE s

Strip(s) == RStrip(LStrip(s))

ParseTags(tags) ==
    LET parts == Split(tags)
        stripped == [i \in 1..Len(parts) |-> Strip(parts[i])]
    IN  SelectSeq(stripped, LAMBDA tag : tag # <<>>)

----------------------------------------------------------------------------
(* Files. *)

Absent == [kind |-> "absent"]
JsonFile(v) == [kind |-> "json", value |-> v]
Garbage(what) == [kind |-> "garbage", what |-> what]
Undecodable == [kind |-> "undecodable"]
Unreadable == [kind |-> "unreadable"]
EmptyFile == Garbage("empty")

(* JSON documents that are not a catalog: [] and {}. *)
JsonList == [kind |-> "list"]
JsonObject == [kind |-> "object"]
NoValue == [kind |-> "none"]

_create_empty_catalog(t) ==
    [kind |-> "catalog",
     metadata |-> [created |-> t, last_updated |-> t, total_entries |-> 0],
     entries |-> <<>>,
     categories |-> EmptyDict,
     tags |-> EmptyDict,
     statistics |-> [content_types |-> EmptyDict,
                     sources |-> EmptyDict,
                     quality_distribution |-> EmptyDict]]

(* load_catalog: the value returned, or the exception that escapes.       *)
(* UnicodeDecodeError is a ValueError that is neither a JSONDecodeError   *)
(* nor an IOError, so the except clause does not catch it.                *)
load_catalog(file, t) ==
    CASE file.kind = "absent" ->
           [raised |-> FALSE, value |-> _create_empty_catalog(t)]
      [] file.kind = "json" ->
           [raised |-> FALSE, value |-> file.value]
      [] file.kind = "garbage" ->
           [raised |-> FALSE, value |-> _create_empty_catalog(t)]
      [] file.kind = "unreadable" ->
           [raised |-> FALSE, value |-> _create_empty_catalog(t)]
      [] file.kind = "undecodable" ->
           [raised |-> TRUE, value |-> NoValue]

----------------------------------------------------------------------------
(* Entry construction. *)

(* A domain is its sequence of characters. urlparse raises on none of   *)
(* the URLs of the input domain, so the "unknown" of the except branch  *)
(* is never returned.                                                    *)
(* The index of the first occurrence of character c at or after *)
(* position i, or 0.                                             *)
RECURSIVE Find(_, _, _)
Find(s, c, i) ==
    IF i > Len(s) THEN 0
    ELSE IF s[i] = c THEN i
    ELSE Find(s, c, i + 1)

(* urlparse(url).netloc: what lies between the "//" that follows the *)
(* scheme and the next "/"; empty when there is no "//" there.        *)
Netloc(url) ==
    LET colon == Find(url, ":", 1)
        rest  == IF colon > 0 THEN SubSeq(url, colon + 1, Len(url)) ELSE url
        slash == Find(rest, "/", 3)
    IN  IF Len(rest) >= 2 /\ rest[1] = "/" /\ rest[2] = "/"
        THEN SubSeq(rest, 3, IF slash > 0 THEN slash - 1 ELSE Len(rest))
        ELSE <<>>

_extract_domain(url) == Netloc(url)

_get_quality_range(score) ==
    IF score >= ExcellentMin THEN "excellent"
    ELSE IF score >= GoodMin THEN "good"
    ELSE IF score >= FairMin THEN "fair"
    ELSE "poor"

(* entry_id: the creation second and hash(url) % 10000. *)
EntryId(t, h, url) == <<t, h[url] % HashBuckets>>
NoId == <<>>

(* A scan that looks at the last stored entry only. *)
MutUrlMatchesLastOnly(entries, url) ==
    IF entries # <<>> /\ entries[Len(entries)].url = url
    THEN <<entries[Len(entries)]>> ELSE <<>>

(* A duplicate scan that begins at the second stored entry. *)
MutUrlMatchesAfterFirst(entries, url) ==
    IF entries = <<>> THEN <<>>
    ELSE SelectSeq(Tail(entries), LAMBDA e : e.url = url)

(* The duplicate scan: the stored entries, in iteration order, whose url *)
(* equals the candidate's.                                               *)
UrlMatches(entries, url) ==
    SelectSeq(entries, LAMBDA e : e.url = url)

(* An insertion that starts the mapping afresh. *)
MutEntriesSetAlone(entries, entry) == <<entry>>

(* catalog["entries"][entry_id] = entry: a stored key keeps its place. *)
EntriesSet(entries, entry) ==
    IF \E i \in 1..Len(entries) : entries[i].id = entry.id
    THEN [i \in 1..Len(entries) |->
             IF entries[i].id = entry.id THEN entry ELSE entries[i]]
    ELSE Append(entries, entry)

BuildEntry(inp, tag_list, meta, id, t) ==
    [id |-> id,
     title |-> inp.title,
     url |-> inp.url,
     summary |-> inp.content_summary,
     tags |-> tag_list,
     metadata |-> meta.fields,
     quality_score |-> inp.quality_score,
     created |-> t,
     last_updated |-> t,
     source_domain |-> _extract_domain(inp.url),
     content_type |-> DictGet(meta.fields, "content_type", JStr("unknown")),
     technical_level |-> DictGet(meta.fields, "technical_level", JStr("unknown"))]

(* An index update that appends only under a tag it has just created. *)
RECURSIVE MutAppendTagsNewOnly(_, _, _)
MutAppendTagsNewOnly(index, tag_list, id) ==
    IF tag_list = <<>> THEN index
    ELSE MutAppendTagsNewOnly(
             IF Head(tag_list) \in DOMAIN index THEN index
             ELSE DictSet(index, Head(tag_list), <<id>>),
             Tail(tag_list), id)

RECURSIVE AppendTags(_, _, _)
AppendTags(index, tag_list, id) ==
    IF tag_list = <<>> THEN index
    ELSE AppendTags(
             DictSet(index, Head(tag_list),
                     Append(DictGet(index, Head(tag_list), <<>>), id)),
             Tail(tag_list), id)

Increment(counts, k) == DictSet(counts, k, DictGet(counts, k, 0) + 1)

_update_catalog_indices(catalog, entry) ==
    [catalog EXCEPT
        !.tags = AppendTags(@, entry.tags, entry.id),
        !.categories =
            DictSet(@, entry.content_type,
                    Append(DictGet(@, entry.content_type, <<>>), entry.id)),
        !.statistics =
            [content_types |-> Increment(@.content_types, entry.content_type),
             sources |-> Increment(@.sources, entry.source_domain),
             quality_distribution |->
                 Increment(@.quality_distribution,
                           _get_quality_range(entry.quality_score))]]

(* A call that saves the catalog it has loaded when it finds the url. *)
MutPreparedSavesDuplicate(file, inp, t, h) ==
    LET ld == load_catalog(file, t)
        tag_list == ParseTags(inp.tags)
        meta == ParseMetadata(inp.metadata)
        id == EntryId(t, h, inp.url)
    IN  IF ld.raised \/ ld.value.kind # "catalog"
        THEN [kind |-> "error", id |-> NoId]
        ELSE LET catalog == ld.value
                 dups == UrlMatches(catalog.entries, inp.url)
             IN  IF dups # <<>>
                 THEN [kind |-> "save", id |-> dups[1].id, entry |-> dups[1],
                       catalog |-> catalog]
                 ELSE IF ~meta.isObject
                 THEN [kind |-> "error", id |-> NoId]
                 ELSE LET entry == BuildEntry(inp, tag_list, meta, id, t)
                      IN  [kind |-> "save", id |-> id, entry |-> entry,
                           catalog |->
                               _update_catalog_indices(
                                   [catalog EXCEPT
                                       !.entries = EntriesSet(@, entry)],
                                   entry)]

(* create_catalog_entry up to the save: what the call has in hand when it *)
(* returns early (a duplicate report, or the error report of the outer    *)
(* except clause) or when it goes on to save.                             *)
Prepared(file, inp, t, h) ==
    LET ld == load_catalog(file, t)
        tag_list == ParseTags(inp.tags)
        meta == ParseMetadata(inp.metadata)
        id == EntryId(t, h, inp.url)
    IN  IF ld.raised \/ ld.value.kind # "catalog"
        THEN [kind |-> "error", id |-> NoId]
        ELSE LET catalog == ld.value
                 dups == UrlMatches(catalog.entries, inp.url)
             IN  IF dups # <<>>
                 THEN [kind |-> "duplicate", id |-> dups[1].id]
                 ELSE IF ~meta.isObject
                 THEN [kind |-> "error", id |-> NoId]
                 ELSE LET entry == BuildEntry(inp, tag_list, meta, id, t)
                      IN  [kind |-> "save", id |-> id, entry |-> entry,
                           catalog |->
                               _update_catalog_indices(
                                   [catalog EXCEPT
                                       !.entries = EntriesSet(@, entry)],
                                   entry)]

----------------------------------------------------------------------------
(* Saving. *)

IoOk == [backup |-> "ok", write |-> "ok"]
IoOutcomes == [backup : {"ok", "fail"}, write : {"ok", "openFail", "writeFail"}]

(* A save that keeps the total it was given. *)
MutStampKeepsTotal(catalog, t) ==
    [catalog EXCEPT !.metadata.last_updated = t]

(* save_catalog lines 60-61. *)
Stamp(catalog, t) ==
    [catalog EXCEPT !.metadata.last_updated = t,
                    !.metadata.total_entries = Len(catalog.entries)]

(* The document json.load reads back from what json.dump wrote. *)
Serialize(catalog) ==
    [catalog EXCEPT
        !.categories = JsonDict(@),
        !.statistics.content_types = JsonDict(@)]

(* A backup that copies the primary file only when it holds JSON. *)
MutBackupParsedOnly(file, bks, t, io) ==
    IF file.kind # "json" \/ io.backup = "fail" THEN bks
    ELSE DictSet(bks, t, file)

(* _create_backup: the backups directory afterwards.  A failure of the    *)
(* copy is printed and swallowed.  The backup file is opened for writing  *)
(* before the source is read, so a source that cannot be decoded leaves   *)
(* an empty backup file.                                                  *)
_create_backup(file, bks, t, io) ==
    IF file.kind = "absent" THEN bks
    ELSE IF file.kind = "unreadable" \/ io.backup = "fail" THEN bks
    ELSE IF file.kind = "undecodable" THEN DictSet(bks, t, EmptyFile)
    ELSE DictSet(bks, t, file)

(* save_catalog: the value returned and the files afterwards.  open(.., 'w') *)
(* truncates the primary file before json.dump writes it.                    *)
save_catalog(file, bks, catalog, t, io) ==
    LET doc == Stamp(catalog, t)
        bks2 == _create_backup(file, bks, t, io)
    IN  CASE io.write = "openFail" ->
               [ok |-> FALSE, primary |-> file, backups |-> bks2]
          [] io.write = "writeFail" ->
               [ok |-> FALSE, primary |-> Garbage("partial"), backups |-> bks2]
          [] OTHER ->
               [ok |-> TRUE, primary |-> JsonFile(Serialize(doc)),
                backups |-> bks2]

----------------------------------------------------------------------------
(* The operations, one call at a time. *)

Writers == {1, 2}

NoInput == [title |-> <<>>, url |-> <<>>, content_summary |-> <<>>, tags |-> <<>>,
            metadata |-> "", quality_score |-> 0]
IdleLoc == [res |-> "none", inp |-> NoInput, id |-> NoId, catalog |-> NoValue,
            base |-> [kind |-> "absent"], before |-> [kind |-> "absent"],
            raced |-> FALSE, clobbered |-> FALSE]
NoReport == <<>>
NoResult == [op |-> "none", kind |-> "none", id |-> NoId, inp |-> NoInput,
             report |-> NoReport]

(* A call begins and ends within one second of the clock. *)
create_catalog_entry(inp, io) ==
    /\ calls < MaxCalls
    /\ calls' = calls + 1
    /\ LET p == Prepared(primary, inp, now, hashOf)
       IN  IF p.kind = "save"
           THEN LET s == save_catalog(primary, backups, p.catalog, now, io)
                IN  /\ io # IoOk => faults < MaxFaults
                    /\ faults' = IF io = IoOk THEN faults ELSE faults + 1
                    /\ primary' = s.primary
                    /\ backups' = s.backups
                    /\ result' = [op |-> "create",
                                  kind |-> IF s.ok THEN "created" ELSE "saveFailed",
                                  id |-> p.id, inp |-> inp, report |-> NoReport]
           ELSE /\ io = IoOk
                /\ result' = [op |-> "create", kind |-> p.kind,
                              id |-> p.id, inp |-> inp, report |-> NoReport]
                /\ UNCHANGED <<primary, backups, faults>>
    /\ UNCHANGED <<exports, exported, now, hashOf, corrupts, pc, loc>>

(* The clock passes to the next second. *)
Tick ==
    /\ now < MaxTime
    /\ now' = now + 1
    /\ UNCHANGED <<primary, backups, exports, exported, hashOf, result, calls, faults,
                   corrupts, pc, loc>>

(* The primary file is damaged or replaced from outside the program. *)
CorruptKinds == {Garbage("external"), Undecodable, Unreadable, JsonFile(JsonList),
                 JsonFile(JsonObject)}

Corrupt(file) ==
    /\ corrupts < MaxCorrupt
    /\ primary.kind # "absent"
    /\ corrupts' = corrupts + 1
    /\ primary' = file
    /\ UNCHANGED <<backups, exports, exported, now, hashOf, result, calls, faults,
                   pc, loc>>

----------------------------------------------------------------------------
(* The read paths. *)

(* str.lower on the letters of the input domain. *)
LowerChar(c) ==
    CASE c = "A" -> "a" [] c = "C" -> "c" [] c = "Q" -> "q" [] OTHER -> c

Lower(text) == [i \in 1..Len(text) |-> LowerChar(text[i])]

(* str.split(): the runs of characters that are not whitespace. *)
RECURSIVE SplitWords(_)
SplitWords(text) ==
    IF text = <<>> THEN <<>>
    ELSE IF IsSpace(Head(text)) THEN SplitWords(Tail(text))
    ELSE LET stop == IF \E i \in 1..Len(text) : IsSpace(text[i])
                     THEN (CHOOSE i \in 1..Len(text) :
                               /\ IsSpace(text[i])
                               /\ \A m \in 1..(i - 1) : ~IsSpace(text[m])) - 1
                     ELSE Len(text)
         IN  <<SubSeq(text, 1, stop)>>
             \o SplitWords(SubSeq(text, stop + 1, Len(text)))

(* set(text.lower().split()) *)
Words(text) ==
    LET ws == SplitWords(Lower(text)) IN {ws[i] : i \in 1..Len(ws)}

(* The similarity as the fraction num/den; 0.0 is 0/1. *)
_calculate_text_similarity(text1, text2) ==
    IF text1 = <<>> \/ text2 = <<>> THEN [num |-> 0, den |-> 1]
    ELSE IF Words(text1) = {} \/ Words(text2) = {} THEN [num |-> 0, den |-> 1]
    ELSE [num |-> Cardinality(Words(text1) \cap Words(text2)),
          den |-> Cardinality(Words(text1) \cup Words(text2))]

(* ratio >= tenths / 10 *)
MutExceedsOrEquals(ratio, tenths) == ratio.num * 10 >= tenths * ratio.den

(* ratio > tenths / 10 *)
Exceeds(ratio, tenths) == ratio.num * 10 > tenths * ratio.den

(* One pass of the loop of detect_duplicates over a stored entry. *)
Similarity(entry, url, title, content_summary) ==
    LET urlHit == entry.url = url
        titleHit == /\ title # <<>> /\ entry.title # <<>>
                    /\ Exceeds(_calculate_text_similarity(title, entry.title), 8)
        summaryHit == /\ content_summary # <<>> /\ entry.summary # <<>>
                      /\ Exceeds(_calculate_text_similarity(content_summary,
                                                            entry.summary), 7)
    IN  [entry_id |-> entry.id,
         similarity_score |-> (IF urlHit THEN UrlMatchScore ELSE 0)
                              + (IF titleHit THEN TitleMatchScore ELSE 0)
                              + (IF summaryHit THEN SummaryMatchScore ELSE 0),
         reasons |-> (IF urlHit THEN <<"Exact URL match">> ELSE <<>>)
                     \o (IF titleHit THEN <<"Title similarity">> ELSE <<>>)
                     \o (IF summaryHit THEN <<"Content similarity">> ELSE <<>>),
         existing_title |-> entry.title,
         existing_url |-> entry.url]

Duplicates(entries, url, title, content_summary) ==
    SelectSeq([i \in 1..Len(entries) |->
                   Similarity(entries[i], url, title, content_summary)],
              LAMBDA d : d.similarity_score >= FlagThreshold)

DetectInputs ==
    { [url |-> UrlEdu, title |-> NoText, content_summary |-> NoText],
      [url |-> UrlOrg, title |-> TitleQ, content_summary |-> SummaryQ],
      [url |-> UrlOrg, title |-> TitleQLower,
       content_summary |-> SummaryQMore],
      [url |-> UrlOrg, title |-> TitleQMore, content_summary |-> SummaryQ],
      [url |-> UrlOrg, title |-> TitleD, content_summary |-> SummaryD],
      [url |-> UrlOrg, title |-> BlankText, content_summary |-> SummaryQMore] }

detect_duplicates(q) ==
    /\ LET ld == load_catalog(primary, now)
           asked == [NoInput EXCEPT !.url = q.url, !.title = q.title,
                                    !.content_summary = q.content_summary]
       IN  IF ld.raised \/ ld.value.kind # "catalog"
           THEN result' = [op |-> "detect", kind |-> "error", id |-> NoId,
                           inp |-> asked, report |-> NoReport]
           ELSE LET dups == Duplicates(ld.value.entries, q.url, q.title,
                                       q.content_summary)
                IN  result' = [op |-> "detect",
                               kind |-> IF dups # <<>> THEN "flagged" ELSE "unique",
                               id |-> NoId, inp |-> asked, report |-> dups]
    /\ UNCHANGED <<primary, backups, exports, exported, now, hashOf, calls,
                   faults, corrupts, pc, loc>>

Contains(s, sub) ==
    \E i \in 0..(Len(s) - Len(sub)) : SubSeq(s, i + 1, i + Len(sub)) = sub

(* f"level_{technical_level}" *)
LevelCategory(level) == JStr("level_" \o level.s)

_get_entry_categories(entry) ==
    <<entry.content_type>>
    \o (IF entry.technical_level # JStr("unknown")
        THEN <<LevelCategory(entry.technical_level)>> ELSE <<>>)
    \o (IF Contains(entry.source_domain, <<".", "e", "d", "u">>)
           \/ Contains(entry.source_domain, <<".", "a", "c", ".">>)
        THEN <<JStr("academic")>>
        ELSE IF Contains(entry.source_domain, <<".", "g", "o", "v">>)
        THEN <<JStr("government")>>
        ELSE IF Contains(entry.source_domain, <<".", "o", "r", "g">>)
        THEN <<JStr("organization")>>
        ELSE <<JStr("commercial")>>)

(* format_type.lower() on the formats of the input domain. *)
LowerFormat(format_type) ==
    CASE format_type \in {"json", "JSON"} -> "json"
      [] format_type \in {"csv", "Csv"} -> "csv"
      [] format_type = "markdown" -> "markdown"
      [] OTHER -> "other"

FormatExtension(fmt) ==
    CASE fmt = "json" -> ".json" [] fmt = "csv" -> ".csv" [] OTHER -> ".md"

InCategories(category, entry) ==
    \E i \in 1..Len(_get_entry_categories(entry)) :
        _get_entry_categories(entry)[i] = category

(* An export that does not apply the filter. *)
MutEntriesToExportAll(catalog, filter_category) == catalog.entries

EntriesToExport(catalog, filter_category) ==
    IF filter_category = "" THEN catalog.entries
    ELSE SelectSeq(catalog.entries,
                   LAMBDA e : InCategories(JStr(filter_category), e))

(* The content written, by format. *)
CsvRow(e) ==
    <<e.id, e.title, e.url, e.summary, e.tags, e.content_type,
      e.technical_level, e.quality_score, e.source_domain, e.created>>

(* by_type of the markdown branch: the content types of the rows in the *)
(* order in which the rows first show them.                             *)
RECURSIVE ContentTypes(_)
ContentTypes(rows) ==
    IF rows = <<>> THEN <<>>
    ELSE LET before == ContentTypes(SubSeq(rows, 1, Len(rows) - 1))
             ct == rows[Len(rows)].content_type
         IN  IF \E i \in 1..Len(before) : before[i] = ct THEN before
             ELSE Append(before, ct)

(* content_type.title() exists for a str only: the sections are written *)
(* type by type up to the first type that is not a str.                 *)
RECURSIVE TypesWritten(_)
TypesWritten(types) ==
    IF types = <<>> \/ Head(types).t # "str" THEN <<>>
    ELSE <<Head(types)>> \o TypesWritten(Tail(types))

MarkdownFails(rows) ==
    \E i \in 1..Len(rows) : rows[i].content_type.t # "str"

RECURSIVE Sections(_, _)
Sections(types, rows) ==
    IF types = <<>> THEN <<>>
    ELSE SelectSeq(rows, LAMBDA e : e.content_type = Head(types))
         \o Sections(Tail(types), rows)

(* The entries the export file holds when the call returns. *)
RowsWritten(fmt, rows) ==
    IF fmt = "markdown" THEN Sections(TypesWritten(ContentTypes(rows)), rows)
    ELSE rows

ExportContent(fmt, catalog, rows, filter_category) ==
    CASE fmt = "json" ->
           [format |-> fmt, metadata |-> catalog.metadata, entries |-> rows,
            filter_applied |-> filter_category, total_entries |-> Len(rows)]
      [] fmt = "csv" ->
           [format |-> fmt, rows |-> [i \in 1..Len(rows) |-> CsvRow(rows[i])]]
      [] OTHER ->
           LET written == RowsWritten(fmt, rows)
           IN  [format |-> fmt, total_entries |-> Len(rows),
                filter_applied |-> filter_category,
                sections |-> [i \in 1..Len(written) |->
                                 [title |-> written[i].title,
                                  url |-> written[i].url,
                                  summary |-> written[i].summary,
                                  tags |-> written[i].tags,
                                  quality_score |-> written[i].quality_score,
                                  technical_level |-> written[i].technical_level,
                                  content_type |-> written[i].content_type]]]

ExportInputs ==
    { [format_type |-> "json", filter_category |-> ""],
      [format_type |-> "JSON", filter_category |-> "academic"],
      [format_type |-> "csv", filter_category |-> "article"],
      [format_type |-> "markdown", filter_category |-> "level_advanced"],
      [format_type |-> "markdown", filter_category |-> ""],
      [format_type |-> "xml", filter_category |-> ""] }

(* The report of an export call: what was asked, the file written and   *)
(* the entries it holds.                                                *)
ExportReport(x, name, selected, written) ==
    [format_type |-> x.format_type, filter_category |-> x.filter_category,
     file |-> name, selected |-> selected, written |-> written]

NoFile == <<>>

export_catalog(x) ==
    /\ exported < MaxExports
    /\ LET ld == load_catalog(primary, now)
           fmt == LowerFormat(x.format_type)
       IN  IF ld.raised \/ ld.value.kind # "catalog"
           THEN /\ result' = [op |-> "export", kind |-> "error", id |-> NoId,
                              inp |-> NoInput,
                              report |-> ExportReport(x, NoFile, <<>>, <<>>)]
                /\ UNCHANGED <<exports, exported>>
           ELSE IF fmt = "other"
           THEN /\ result' = [op |-> "export", kind |-> "unsupported",
                              id |-> NoId, inp |-> NoInput,
                              report |-> ExportReport(
                                  x, NoFile,
                                  EntriesToExport(ld.value, x.filter_category),
                                  <<>>)]
                /\ UNCHANGED <<exports, exported>>
           ELSE LET rows == EntriesToExport(ld.value, x.filter_category)
                    name == <<now, FormatExtension(fmt)>>
                    failed == fmt = "markdown" /\ MarkdownFails(rows)
                IN  /\ exports' = DictSet(exports, name,
                                          ExportContent(fmt, ld.value, rows,
                                                        x.filter_category))
                    /\ exported' = exported + 1
                    /\ result' = [op |-> "export",
                                  kind |-> IF failed THEN "error" ELSE "exported",
                                  id |-> NoId, inp |-> NoInput,
                                  report |-> ExportReport(
                                      x, name, rows, RowsWritten(fmt, rows))]
    /\ UNCHANGED <<primary, backups, now, hashOf, calls, faults, corrupts,
                   pc, loc>>

RECURSIVE SeqSum(_)
SeqSum(seq) == IF seq = <<>> THEN 0 ELSE Head(seq) + SeqSum(Tail(seq))

SeqMax(seq) == CHOOSE m \in {seq[i] : i \in 1..Len(seq)} :
                   \A i \in 1..Len(seq) : seq[i] <= m
SeqMin(seq) == CHOOSE m \in {seq[i] : i \in 1..Len(seq)} :
                   \A i \in 1..Len(seq) : seq[i] >= m

StatisticsReport(entries) ==
    LET scores == [i \in 1..Len(entries) |-> entries[i].quality_score]
    IN  [total_entries |-> Len(entries),
         unique_tags |-> Cardinality(UNION {{entries[i].tags[j] :
                                                j \in 1..Len(entries[i].tags)} :
                                            i \in 1..Len(entries)}),
         source_domains |-> Cardinality({entries[i].source_domain :
                                            i \in 1..Len(entries)}),
         content_types |-> Cardinality({entries[i].content_type :
                                           i \in 1..Len(entries)}),
         quality_sum |-> SeqSum(scores),
         quality_count |-> Len(scores),
         max_quality |-> SeqMax(scores),
         min_quality |-> SeqMin(scores)]

(* A statistics call that saves the catalog it has loaded. *)
MutStatisticsSaves ==
    /\ LET ld == load_catalog(primary, now)
       IN  /\ result' = [op |-> "statistics", kind |-> "empty", id |-> NoId,
                         inp |-> NoInput, report |-> NoReport]
           /\ IF ~ld.raised /\ ld.value.kind = "catalog"
              THEN LET sv == save_catalog(primary, backups, ld.value, now, IoOk)
                   IN  primary' = sv.primary /\ backups' = sv.backups
              ELSE UNCHANGED <<primary, backups>>
    /\ UNCHANGED <<exports, exported, now, hashOf, calls, faults, corrupts,
                   pc, loc>>

(* catalog.get("entries", {}): a list has no get; {} has no entries. *)
generate_catalog_statistics ==
    /\ LET ld == load_catalog(primary, now)
       IN  result' =
               IF ld.raised \/ ld.value.kind = "list"
               THEN [op |-> "statistics", kind |-> "error", id |-> NoId,
                     inp |-> NoInput, report |-> NoReport]
               ELSE IF ld.value.kind = "object" \/ ld.value.entries = <<>>
               THEN [op |-> "statistics", kind |-> "empty", id |-> NoId,
                     inp |-> NoInput, report |-> NoReport]
               ELSE [op |-> "statistics", kind |-> "report", id |-> NoId,
                     inp |-> NoInput,
                     report |-> StatisticsReport(ld.value.entries)]
    /\ UNCHANGED <<primary, backups, exports, exported, now, hashOf, calls,
                   faults, corrupts, pc, loc>>

(* save_catalog(load_catalog()) with nothing done in between, as a caller *)
(* of CatalogManager runs it.                                             *)
RoundTrip(io) ==
    /\ calls < MaxCalls
    /\ calls' = calls + 1
    /\ LET ld == load_catalog(primary, now)
       IN  IF ~ld.raised /\ ld.value.kind = "catalog"
           THEN LET s == save_catalog(primary, backups, ld.value, now, io)
                IN  /\ io # IoOk => faults < MaxFaults
                    /\ faults' = IF io = IoOk THEN faults ELSE faults + 1
                    /\ primary' = s.primary
                    /\ backups' = s.backups
                    /\ result' = [op |-> "roundtrip",
                                  kind |-> IF s.ok THEN "saved" ELSE "saveFailed",
                                  id |-> NoId, inp |-> NoInput, report |-> NoReport]
           ELSE /\ io = IoOk
                /\ result' = [op |-> "roundtrip",
                              kind |-> IF ld.raised THEN "error" ELSE "saveFailed",
                              id |-> NoId, inp |-> NoInput, report |-> NoReport]
                /\ UNCHANGED <<primary, backups, faults>>
    /\ UNCHANGED <<exports, exported, now, hashOf, corrupts, pc, loc>>

----------------------------------------------------------------------------
(* Two invocations of create_catalog_entry that run at the same time: a   *)
(* call is its reads and writes of the files, in program order.           *)

(* Lines 118-157: the load and everything computed from it. *)
RaceLoad(w, inp) ==
    /\ pc[w] = "idle"
    /\ calls < MaxRaceCalls
    /\ calls' = calls + 1
    /\ LET p == Prepared(primary, inp, now, hashOf)
       IN  IF p.kind = "save"
           THEN /\ pc' = [pc EXCEPT ![w] = "loaded"]
                /\ loc' = [loc EXCEPT ![w] =
                              [res |-> "pending", inp |-> inp, id |-> p.id,
                               catalog |-> p.catalog, base |-> primary,
                               before |-> Absent,
                               raced |-> FALSE, clobbered |-> FALSE]]
           ELSE /\ loc' = [loc EXCEPT ![w] =
                              [res |-> p.kind, inp |-> inp, id |-> p.id,
                               catalog |-> NoValue, base |-> primary,
                               before |-> Absent,
                               raced |-> FALSE, clobbered |-> FALSE]]
                /\ UNCHANGED pc
    /\ UNCHANGED <<primary, backups, exports, exported, now, hashOf, result, faults,
                   corrupts>>

(* save_catalog lines 60-64: the info block and the backup.  raced      *)
(* records that the other call had loaded the same file content, and    *)
(* not begun to save, when the first of the two began to save.          *)
RaceBackup(w) ==
    /\ pc[w] = "loaded"
    /\ pc' = [pc EXCEPT ![w] = "backedup"]
    /\ loc' = [v \in Writers |->
                  IF v = w
                  THEN [loc[v] EXCEPT
                           !.catalog = Stamp(@, now),
                           !.raced = @ \/ \E u \in Writers \ {w} :
                                            /\ pc[u] = "loaded"
                                            /\ loc[u].base = loc[w].base]
                  ELSE IF pc[v] = "loaded" /\ loc[v].base = loc[w].base
                       THEN [loc[v] EXCEPT !.raced = TRUE]
                       ELSE loc[v]]
    /\ backups' = _create_backup(primary, backups, now, IoOk)
    /\ UNCHANGED <<primary, exports, exported, now, hashOf, result, calls, faults,
                   corrupts>>

(* save_catalog line 67: open(.., 'w') truncates the primary file.      *)
(* before records the file that the open truncated.                     *)
RaceOpen(w) ==
    /\ pc[w] = "backedup"
    /\ pc' = [pc EXCEPT ![w] = "opened"]
    /\ primary' = EmptyFile
    /\ loc' = [loc EXCEPT ![w].before = primary]
    /\ UNCHANGED <<backups, exports, exported, now, hashOf, result, calls, faults,
                   corrupts>>

(* save_catalog line 68: the document is written from offset 0 and the   *)
(* file closed.  Written over what another writer wrote since this one   *)
(* opened the file, a shorter document leaves the tail of the longer.    *)
RaceWrite(w, overlay) ==
    /\ pc[w] = "opened"
    /\ overlay => loc[w].clobbered
    /\ pc' = [pc EXCEPT ![w] = "idle"]
    /\ primary' = IF overlay THEN Garbage("overlay")
                  ELSE JsonFile(Serialize(loc[w].catalog))
    /\ loc' = [v \in Writers |->
                  IF v = w
                  THEN [loc[v] EXCEPT !.res = "created", !.catalog = NoValue,
                                      !.base = Absent, !.before = Absent]
                  ELSE IF pc[v] = "opened"
                       THEN [loc[v] EXCEPT !.clobbered = TRUE]
                       ELSE loc[v]]
    /\ UNCHANGED <<backups, exports, exported, now, hashOf, result, calls, faults,
                   corrupts>>

Init ==
    /\ primary = Absent
    /\ backups = EmptyDict
    /\ exports = EmptyDict
    /\ exported = 0
    /\ now = 0
    /\ hashOf \in HashChoices
    /\ result = NoResult
    /\ calls = 0
    /\ faults = 0
    /\ corrupts = 0
    /\ pc = [w \in Writers |-> "idle"]
    /\ loc = [w \in Writers |-> IdleLoc]

Next ==
    \/ \E inp \in Inputs, io \in IoOutcomes : create_catalog_entry(inp, io)
    \/ Tick
    \/ \E file \in CorruptKinds : Corrupt(file)

Spec == Init /\ [][Next]_vars

(* The read paths over the catalogs that calls without I/O failures build. *)
ReadInputs ==
    {inp \in Inputs : inp.metadata \in {MetaObject, MetaIntType}} \cup
    { [title |-> BlankText, url |-> UrlCom, content_summary |-> SummaryQMore,
       tags |-> TagsNone, metadata |-> MetaAcademic, quality_score |-> 6] }

CreateForRead ==
    \E inp \in ReadInputs :
        calls < MaxReadCalls /\ create_catalog_entry(inp, IoOk)

(* The duplicate detector and the statistics. *)
NextRead ==
    \/ CreateForRead
    \/ \E q \in DetectInputs : detect_duplicates(q)
    \/ generate_catalog_statistics
    \/ Tick
    \/ \E file \in CorruptKinds : Corrupt(file)

SpecRead == Init /\ [][NextRead]_vars

(* The exporter, within one second of the clock. *)
NextExport ==
    \/ CreateForRead
    \/ \E x \in ExportInputs : export_catalog(x)
    \/ \E file \in CorruptKinds : Corrupt(file)

SpecExport == Init /\ [][NextExport]_vars

(* The three read paths side by side, each with a part of its arguments. *)
FewDetectInputs == {q \in DetectInputs : q.title \in {NoText, TitleQ}}
FewExportInputs == {x \in ExportInputs : x.filter_category = ""}

NextReadAll ==
    \/ CreateForRead
    \/ \E q \in FewDetectInputs : detect_duplicates(q)
    \/ \E x \in FewExportInputs : export_catalog(x)
    \/ generate_catalog_statistics
    \/ \E file \in CorruptKinds : Corrupt(file)

SpecReadAll == Init /\ [][NextReadAll]_vars

NextRoundTrip ==
    \/ Next
    \/ \E io \in IoOutcomes : RoundTrip(io)

SpecRoundTrip == Init /\ [][NextRoundTrip]_vars

NextRace ==
    \/ \E w \in Writers, inp \in RaceInputs : RaceLoad(w, inp)
    \/ \E w \in Writers : RaceBackup(w)
    \/ \E w \in Writers : RaceOpen(w)
    \/ \E w \in Writers, overlay \in BOOLEAN : RaceWrite(w, overlay)
    \/ Tick

(* The concurrent calls start over no file, or over the file that one *)
(* earlier call has left.                                              *)
InitRace ==
    /\ hashOf \in HashChoices
    /\ primary \in
         {Absent,
          save_catalog(Absent, EmptyDict,
                       Prepared(Absent, EarlierInput, 0, hashOf).catalog,
                       0, IoOk).primary}
    /\ backups = EmptyDict
    /\ exports = EmptyDict
    /\ exported = 0
    /\ now = 0
    /\ result = NoResult
    /\ calls = 0
    /\ faults = 0
    /\ corrupts = 0
    /\ pc = [w \in Writers |-> "idle"]
    /\ loc = [w \in Writers |-> IdleLoc]

SpecRace == InitRace /\ [][NextRace]_vars

(* _get_entry_categories on the entries that create_catalog_entry builds *)
(* for urls of these source domains.                                     *)
CategoryDomains ==
    { <<"m", "i", "t", ".", "e", "d", "u">>,
      <<"o", "x", ".", "a", "c", ".", "u", "k">>,
      <<"n", "a", "s", "a", ".", "g", "o", "v">>,
      <<"a", "r", "m", "y", ".", "m", "i", "l">>,
      <<"x", ".", "o", "r", "g">>,
      <<"x", ".", "c", "o", "m">>,
      <<"a", ".", "g", "o", "v", ".", "e", "d", "u">>,
      <<"b", ".", "o", "r", "g", ".", "g", "o", "v">>,
      <<"c", ".", "m", "i", "l", ".", "o", "r", "g">>,
      <<"e", "d", "u", ".", "c", "o", "m">>,
      <<"d", ".", "a", "c">>,
      <<>> }

UrlOf(domain) ==
    IF domain = <<>> THEN UrlOrg
    ELSE <<"h", "t", "t", "p", "s", ":", "/", "/">> \o domain \o <<"/", "p">>

CategoryInputs ==
    { [title |-> TitleD, url |-> UrlOf(d), content_summary |-> SummaryD,
       tags |-> TagsNone, metadata |-> m, quality_score |-> DefaultQuality] :
      d \in CategoryDomains,
      m \in {MetaEmpty, MetaObject, MetaIntType, MetaAcademic, MetaNotJson} }

Categorize(inp) ==
    /\ LET entry == BuildEntry(inp, ParseTags(inp.tags),
                               ParseMetadata(inp.metadata), NoId, now)
       IN  result' = [op |-> "categories", kind |-> "listed", id |-> NoId,
                      inp |-> inp,
                      report |-> [entry |-> entry,
                                  categories |-> _get_entry_categories(entry)]]
    /\ UNCHANGED <<primary, backups, exports, exported, now, hashOf, calls,
                   faults, corrupts, pc, loc>>

NextCategories == \E inp \in CategoryInputs : Categorize(inp)

SpecCategories == Init /\ [][NextCategories]_vars

----------------------------------------------------------------------------
(* What the claims speak of. *)

IsCatalogFile(file) == file.kind = "json" /\ file.value.kind = "catalog"

(* The entries a load of the file finds. *)
EntriesOf(file) == IF IsCatalogFile(file) THEN file.value.entries ELSE <<>>

HoldsUrl(file, url) ==
    \E i \in 1..Len(EntriesOf(file)) : EntriesOf(file)[i].url = url

InSeq(x, seq) == \E i \in 1..Len(seq) : seq[i] = x

(* What a load of the file returns, without the info block. *)
LoadedContent(file) ==
    LET v == load_catalog(file, 0).value
    IN  IF v.kind = "catalog"
        THEN [entries |-> v.entries, tags |-> v.tags,
              categories |-> v.categories, statistics |-> v.statistics]
        ELSE v

(* A step that is one whole create_catalog_entry call. *)
CreateStep == calls' = calls + 1 /\ result'.op = "create"

(* A step that is one whole save_catalog(load_catalog()). *)
RoundTripStep == calls' = calls + 1 /\ result'.op = "roundtrip"

(* A step in which writer v finishes writing the primary file. *)
RaceWriteStep(v) == pc[v] = "opened" /\ pc'[v] = "idle"

----------------------------------------------------------------------------
(* C1: a create-entry call whose url is the url of a stored entry leaves *)
(* the number of entries unchanged and returns a duplicate report that   *)
(* names the id of the stored entry with that url.                       *)
C1_DuplicateSuppression ==
    [][(CreateStep /\ HoldsUrl(primary, result'.inp.url)) =>
          /\ result'.kind = "duplicate"
          /\ \E i \in 1..Len(EntriesOf(primary)) :
                 /\ EntriesOf(primary)[i].url = result'.inp.url
                 /\ EntriesOf(primary)[i].id = result'.id
          /\ Len(EntriesOf(primary')) = Len(EntriesOf(primary))]_vars

(* A duplicate report for a candidate whose title differs from that of   *)
(* the stored entry it names, which is not the last of two entries.      *)
C1_Witness ==
    /\ result.op = "create"
    /\ result.kind = "duplicate"
    /\ Len(EntriesOf(primary)) = 2
    /\ EntriesOf(primary)[1].id = result.id
    /\ EntriesOf(primary)[1].url = result.inp.url
    /\ EntriesOf(primary)[1].title # result.inp.title

(* C2: in every persisted catalog, the id of every entry is listed in    *)
(* the tag index under each of the entry's tags.                         *)
C2_IndexConsistency ==
    IsCatalogFile(primary) =>
        \A i \in 1..Len(primary.value.entries) :
            LET e == primary.value.entries[i]
            IN  \A j \in 1..Len(e.tags) :
                    /\ e.tags[j] \in DOMAIN primary.value.tags
                    /\ InSeq(e.id, primary.value.tags[e.tags[j]])

(* Two stored entries with different ids share a tag, and one of them    *)
(* was given that tag twice.                                             *)
C2_Witness ==
    /\ IsCatalogFile(primary)
    /\ Len(primary.value.entries) = 2
    /\ primary.value.entries[1].id # primary.value.entries[2].id
    /\ \E i \in 1..2 : primary.value.entries[i].tags = <<<<"a">>, <<"a">>>>
    /\ \E i \in 1..2 : primary.value.entries[i].tags = <<<<"a">>, <<"b">>>>

(* C3: in every persisted catalog, every id listed under a tag is the id *)
(* of a stored entry that carries the tag.                               *)
C3_TagIndexSound ==
    IsCatalogFile(primary) =>
        \A t \in DOMAIN primary.value.tags :
            \A k \in 1..Len(primary.value.tags[t]) :
                \E i \in 1..Len(primary.value.entries) :
                    /\ primary.value.entries[i].id = primary.value.tags[t][k]
                    /\ InSeq(t, primary.value.entries[i].tags)

(* C4: in every persisted catalog, the quality bucket counters add up to *)
(* the number of entries that carry a quality score (every entry that    *)
(* create_catalog_entry builds carries one).                             *)
C4_BucketSum ==
    IsCatalogFile(primary) =>
        DictSum(primary.value.statistics.quality_distribution)
            = Len(primary.value.entries)

(* C5: a create-entry call leaves every persisted entry in place, under  *)
(* its id and with all its fields.                                       *)
C5_EntryLifecycle ==
    [][CreateStep =>
          \A i \in 1..Len(EntriesOf(primary)) :
              InSeq(EntriesOf(primary)[i], EntriesOf(primary'))]_vars

(* C6: a create-entry call that reports the failure of its save leaves   *)
(* the primary file such that a load returns the same entries, indices   *)
(* and statistics as a load before the call.                             *)
C6_SaveFailureNotApplied ==
    [][(CreateStep /\ result'.kind = "saveFailed") =>
          LoadedContent(primary') = LoadedContent(primary)]_vars

(* C7: save(load()) over a valid persisted catalog leaves the entries,   *)
(* the tag index, the category index and the statistics as they were.    *)
C7_RoundTrip ==
    [][(RoundTripStep /\ IsCatalogFile(primary)) =>
          LoadedContent(primary') = LoadedContent(primary)]_vars

(* C8: after a save that succeeds over an existing primary file, some    *)
(* backup file holds the content the primary file had before the save.   *)
C8_BackupBeforeOverwrite ==
    [][(CreateStep /\ result'.kind = "created" /\ primary.kind # "absent") =>
          \E t \in DOMAIN backups' : backups'[t] = primary]_vars

(* C9: load never raises, and returns a fresh empty catalog whenever the *)
(* primary file is not a valid catalog document.                         *)
C9_SilentRecovery ==
    LET ld == load_catalog(primary, now)
    IN  /\ ~ld.raised
        /\ ~IsCatalogFile(primary) => ld.value = _create_empty_catalog(now)

(* Writer w has saved and writer v is the last of the two to finish      *)
(* writing, the two calls having different urls and having both loaded   *)
(* the same file before either began to save.                            *)
LostUpdateRace(w, v) ==
    /\ w # v
    /\ RaceWriteStep(v)
    /\ loc[v].raced /\ loc[w].raced
    /\ pc[w] = "idle" /\ loc[w].res = "created"
    /\ loc[w].inp.url # loc[v].inp.url

(* What C10 says of the files after such a race: both calls report       *)
(* success, and the primary file is the document of the last writer,     *)
(* which is the catalog it loaded with its own entry put in, and holds   *)
(* no entry of the first writer.                                         *)
LastWriterWins(w, v) ==
    /\ loc'[v].res = "created" /\ loc'[w].res = "created"
    /\ primary' = JsonFile(Serialize(loc[v].catalog))
    /\ HoldsUrl(primary', loc[v].inp.url)
    /\ \A i \in 1..Len(EntriesOf(loc[v].base)) :
           EntriesOf(loc[v].base)[i].id # loc[v].id =>
               InSeq(EntriesOf(loc[v].base)[i], EntriesOf(primary'))
    /\ ~HoldsUrl(primary', loc[w].inp.url)

----------------------------------------------------------------------------
(* A step that is one whole call of the read path named op. *)
ReadStep(op) ==
    calls' = calls /\ corrupts' = corrupts /\ now' = now /\ result'.op = op

(* C11: detect_duplicates, generate_catalog_statistics and export_catalog *)
(* leave the primary file and every backup file as they were, and the     *)
(* first two leave every export file as it was too.                       *)
C11_ReadPathsDoNotMutate ==
    [][/\ (ReadStep("detect") \/ ReadStep("statistics") \/ ReadStep("export"))
           => primary' = primary /\ backups' = backups
       /\ (ReadStep("detect") \/ ReadStep("statistics"))
           => exports' = exports]_vars

(* An export has written a file from a catalog that has a backup. *)
C11_Witness ==
    /\ result.op = "export" /\ result.kind = "exported"
    /\ IsCatalogFile(primary)
    /\ backups # EmptyDict
    /\ exports # EmptyDict

----------------------------------------------------------------------------
(* The Jaccard index of the word sets of two texts is above tenths/10;    *)
(* the index is 0 when either word set is empty.                          *)
JaccardAbove(a, b, tenths) ==
    /\ Words(a) # {} /\ Words(b) # {}
    /\ 10 * Cardinality(Words(a) \cap Words(b))
           > tenths * Cardinality(Words(a) \cup Words(b))

ScoreOf(e, q) ==
    (IF e.url = q.url THEN 100 ELSE 0)
    + (IF JaccardAbove(q.title, e.title, 8) THEN 50 ELSE 0)
    + (IF JaccardAbove(q.content_summary, e.summary, 7) THEN 30 ELSE 0)

(* A detect_duplicates call that has scanned the stored entries. *)
DetectStep == ReadStep("detect") /\ result'.kind # "error"

(* The scores of the scan and the entries it reports. *)
ScoresAndFlags ==
    LET es == EntriesOf(primary)
        q == result'.inp
        rep == result'.report
    IN  /\ \A i \in 1..Len(es) :
               ScoreOf(es[i], q) >= 60 <=>
                   \E j \in 1..Len(rep) :
                       /\ rep[j].entry_id = es[i].id
                       /\ rep[j].similarity_score = ScoreOf(es[i], q)
        /\ \A j \in 1..Len(rep) :
               \E i \in 1..Len(es) : rep[j].entry_id = es[i].id
        /\ (\A i \in 1..Len(es) : ScoreOf(es[i], q) < 60)
               <=> result'.kind = "unique"
        /\ \A i \in 1..Len(es) :
               (/\ es[i].url # q.url
                /\ Words(q.title) \cap Words(es[i].title) = {}
                /\ Words(q.content_summary) \cap Words(es[i].summary) = {})
               => ScoreOf(es[i], q) = 0

(* The candidate has the title and the summary of the stored entry e, *)
(* neither empty, and another url.                                    *)
SameTexts(e, q) ==
    /\ q.title = e.title /\ q.title # <<>>
    /\ q.content_summary = e.summary /\ q.content_summary # <<>>
    /\ q.url # e.url

Flagged80(e) ==
    \E j \in 1..Len(result'.report) :
        /\ result'.report[j].entry_id = e.id
        /\ result'.report[j].similarity_score = 80

(* C12 as stated: the scan scores each stored entry 100 for an equal url, *)
(* plus 50 for a title Jaccard index above 0.8, plus 30 for a summary     *)
(* Jaccard index above 0.7, reports exactly the entries scoring 60 or     *)
(* more, reports no duplicates when there is none, scores 0 an entry that *)
(* shares no word and no url with the candidate, and scores 80 and flags  *)
(* every entry whose non-empty title and summary the candidate repeats    *)
(* under another url.                                                     *)
C12_SimilarityScore ==
    [][DetectStep =>
          /\ ScoresAndFlags
          /\ \A i \in 1..Len(EntriesOf(primary)) :
                 SameTexts(EntriesOf(primary)[i], result'.inp)
                     => Flagged80(EntriesOf(primary)[i])]_vars

(* C12 amended: as above, but an entry whose title and summary the        *)
(* candidate repeats under another url scores 80 and is flagged when the  *)
(* title and the summary each hold at least one word.                     *)
C12_SimilarityScoreWords ==
    [][DetectStep =>
          /\ ScoresAndFlags
          /\ \A i \in 1..Len(EntriesOf(primary)) :
                 (/\ SameTexts(EntriesOf(primary)[i], result'.inp)
                  /\ Words(result'.inp.title) # {}
                  /\ Words(result'.inp.content_summary) # {})
                     => Flagged80(EntriesOf(primary)[i])]_vars

(* A scan of two entries has flagged one with score 80 and not the other. *)
C12_Witness ==
    /\ result.op = "detect" /\ result.kind = "flagged"
    /\ Len(EntriesOf(primary)) = 2
    /\ Len(result.report) = 1
    /\ result.report[1].similarity_score = 80
    /\ result.inp.title # <<>>

----------------------------------------------------------------------------
(* An export_catalog call that has opened an export file. *)
ExportFileStep == ReadStep("export") /\ result'.report.file # NoFile

(* C13: the entries an export writes are exactly the stored entries whose *)
(* derived category set contains the filter category, and all the stored  *)
(* entries when the filter category is empty.                             *)
C13_ExportFilter ==
    [][ExportFileStep =>
          LET es == EntriesOf(primary)
              filter == result'.report.filter_category
              written == result'.report.written
          IN  /\ \A i \in 1..Len(es) :
                     (filter = "" \/ InCategories(JStr(filter), es[i]))
                         <=> InSeq(es[i], written)
              /\ \A j \in 1..Len(written) : InSeq(written[j], es)]_vars

----------------------------------------------------------------------------
(* The source domain matches .edu or .ac. *)
AcademicDomain(e) ==
    \/ Contains(e.source_domain, <<".", "e", "d", "u">>)
    \/ Contains(e.source_domain, <<".", "a", "c", ".">>)

(* An export_catalog call with the filter category "academic". *)
AcademicExportStep ==
    ExportFileStep /\ result'.report.filter_category = "academic"

(* C14 as stated: an export with the filter category "academic" writes *)
(* only stored entries whose source domain matches .edu or .ac.        *)
C14_AcademicFilter ==
    [][AcademicExportStep =>
          \A j \in 1..Len(result'.report.written) :
              /\ InSeq(result'.report.written[j], EntriesOf(primary))
              /\ AcademicDomain(result'.report.written[j])]_vars

(* C14 amended: an export with the filter category "academic" writes   *)
(* only stored entries whose source domain matches .edu or .ac. or     *)
(* whose content type is "academic", and writes each of them when it   *)
(* succeeds.                                                           *)
C14_AcademicFilterOrType ==
    [][AcademicExportStep =>
          /\ \A j \in 1..Len(result'.report.written) :
                 /\ InSeq(result'.report.written[j], EntriesOf(primary))
                 /\ \/ AcademicDomain(result'.report.written[j])
                    \/ result'.report.written[j].content_type
                           = JStr("academic")
          /\ result'.kind = "exported" =>
                 \A i \in 1..Len(EntriesOf(primary)) :
                     (\/ AcademicDomain(EntriesOf(primary)[i])
                      \/ EntriesOf(primary)[i].content_type = JStr("academic"))
                     => InSeq(EntriesOf(primary)[i], result'.report.written)]_vars

(* An export with the filter category "academic" has written one of two *)
(* stored entries and left out the other.                               *)
C14_Witness ==
    /\ result.op = "export" /\ result.kind = "exported"
    /\ result.report.filter_category = "academic"
    /\ Len(EntriesOf(primary)) = 2
    /\ Len(result.report.written) = 1
    /\ AcademicDomain(result.report.written[1])

----------------------------------------------------------------------------
(* The metadata string is neither empty nor the text of a JSON object. *)
NotAMap(text) ==
    text # "" /\ (~JsonLoads(text).ok \/ ~JsonLoads(text).isObject)

(* C15: a create-entry call with a url that no stored entry has, over a  *)
(* catalog that loads and with no I/O failure, inserts an entry whatever *)
(* the metadata string is; when the string is not the text of a JSON     *)
(* object the metadata of the entry is the wrapper of the string and its *)
(* content type and technical level are "unknown".                       *)
C15_MalformedMetadataAccepted ==
    [][(/\ CreateStep
        /\ faults' = faults
        /\ primary.kind = "absent" \/ IsCatalogFile(primary)
        /\ ~HoldsUrl(primary, result'.inp.url)) =>
          /\ result'.kind = "created"
          /\ \E i \in 1..Len(EntriesOf(primary')) :
                 LET e == EntriesOf(primary')[i]
                 IN  /\ e.url = result'.inp.url
                     /\ NotAMap(result'.inp.metadata) =>
                            /\ e.metadata
                                   = ("raw_metadata" :> JStr(result'.inp.metadata))
                            /\ e.content_type = JStr("unknown")
                            /\ e.technical_level = JStr("unknown")]_vars

----------------------------------------------------------------------------
(* C16: an export call with a format other than json, csv and markdown, *)
(* whatever its case, returns the unsupported-format error, creates no  *)
(* export file and changes no file.                                     *)
C16_UnsupportedFormat ==
    [][(/\ ReadStep("export")
        /\ LowerFormat(result'.report.format_type) = "other") =>
          /\ result'.kind = "unsupported"
          /\ exports' = exports
          /\ primary' = primary
          /\ backups' = backups]_vars

----------------------------------------------------------------------------
(* C17: a statistics call returns the empty-catalog result exactly when   *)
(* the primary file holds no entry, be it absent, corrupt or a catalog    *)
(* without entries, and every report it computes divides by an entry      *)
(* count and a score count above zero.                                    *)
C17_EmptyStatistics ==
    [][ReadStep("statistics") =>
          /\ result'.kind = "empty" <=> Len(EntriesOf(primary)) = 0
          /\ result'.kind = "report" =>
                 /\ result'.report.total_entries > 0
                 /\ result'.report.quality_count > 0]_vars

----------------------------------------------------------------------------
(* C18: after a create-entry call whose save succeeded, total_entries in *)
(* the primary file is the number of entries in the primary file.        *)
C18_TotalEntries ==
    [][(CreateStep /\ result'.kind = "created") =>
          /\ IsCatalogFile(primary')
          /\ primary'.value.metadata.total_entries
                 = Len(primary'.value.entries)]_vars

(* A save has succeeded on a document that was loaded with the total of *)
(* one entry and was given a second entry.                              *)
C18_Witness ==
    /\ result.op = "create" /\ result.kind = "created"
    /\ IsCatalogFile(primary)
    /\ Len(primary.value.entries) = 2
    /\ \E t \in DOMAIN backups :
           /\ IsCatalogFile(backups[t])
           /\ backups[t].value.metadata.total_entries = 1

----------------------------------------------------------------------------
(* C19: a create-entry call whose save succeeded leaves one backup file *)
(* more than there were, and a call whose save did not succeed leaves   *)
(* as many as there were.                                               *)
C19_OneBackupPerSave ==
    [][CreateStep =>
          /\ result'.kind = "created" =>
                 Cardinality(DOMAIN backups') = Cardinality(DOMAIN backups) + 1
          /\ result'.kind # "created" =>
                 Cardinality(DOMAIN backups') = Cardinality(DOMAIN backups)]_vars

----------------------------------------------------------------------------
(* A create-entry call whose save succeeded over a primary file that *)
(* holds text that is not JSON.                                      *)
SaveOverCorruptStep ==
    CreateStep /\ result'.kind = "created" /\ primary.kind = "garbage"

(* C20 as stated: a successful save over a primary file that does not *)
(* parse leaves no backup file that holds the content of that file.   *)
C20_CorruptNotBackedUp ==
    [][SaveOverCorruptStep =>
          \A t \in DOMAIN backups' : backups'[t] # primary]_vars

(* C20 amended: a successful save over a primary file that does not     *)
(* parse, when the copy into the backup directory does not fail, leaves *)
(* a backup file that holds the content of that file.                   *)
C20_CorruptBackedUp ==
    [][(SaveOverCorruptStep /\ faults' = faults) =>
          \E t \in DOMAIN backups' : backups'[t] = primary]_vars

(* A save has replaced a primary file that did not parse, and a backup *)
(* holds the text that did not parse.                                  *)
C20_Witness ==
    /\ result.op = "create" /\ result.kind = "created"
    /\ IsCatalogFile(primary)
    /\ \E t \in DOMAIN backups : backups[t].kind = "garbage"

----------------------------------------------------------------------------
(* The indices and the counters a load of the file finds. *)
TagsOf(file) == IF IsCatalogFile(file) THEN file.value.tags ELSE EmptyDict

CategoriesOf(file) ==
    IF IsCatalogFile(file) THEN file.value.categories ELSE EmptyDict

CountersOf(file) ==
    IF IsCatalogFile(file)
    THEN <<file.value.statistics.content_types,
           file.value.statistics.sources,
           file.value.statistics.quality_distribution>>
    ELSE <<EmptyDict, EmptyDict, EmptyDict>>

(* Every list of index old is a list of index new that holds its elements. *)
IndexGrows(old, new) ==
    \A k \in DOMAIN old :
        /\ k \in DOMAIN new
        /\ \A i \in 1..Len(old[k]) : InSeq(old[k][i], new[k])

(* Every counter of old is a counter of new that is not below it. *)
CountersGrow(old, new) ==
    \A k \in DOMAIN old : k \in DOMAIN new /\ new[k] >= old[k]

(* C21: no create-entry call, whether its save succeeds or fails, takes *)
(* an element out of a list of the stored tag index or category index   *)
(* or lowers a stored counter.                                          *)
C21_MonotonicGrowth ==
    [][CreateStep =>
          /\ IndexGrows(TagsOf(primary), TagsOf(primary'))
          /\ IndexGrows(CategoriesOf(primary), CategoriesOf(primary'))
          /\ \A n \in 1..3 :
                 CountersGrow(CountersOf(primary)[n], CountersOf(primary')[n])]_vars

----------------------------------------------------------------------------
(* A create-entry call, with no I/O failure, for a url that no stored  *)
(* entry has and whose generated id is the id of a stored entry.       *)
CollisionStep ==
    /\ CreateStep
    /\ faults' = faults
    /\ ~HoldsUrl(primary, result'.inp.url)
    /\ \E i \in 1..Len(EntriesOf(primary)) :
           EntriesOf(primary)[i].id = EntryId(now, hashOf, result'.inp.url)

(* C22: such a call reports success, puts the new entry in the place of  *)
(* the stored entry with that id, so that the number of entries stays,   *)
(* and extends the tag index, the category index and the counters as for *)
(* a new entry.                                                          *)
C22_IdCollisionOverwrites ==
    [][CollisionStep =>
          LET id == EntryId(now, hashOf, result'.inp.url)
              es == EntriesOf(primary')
          IN  /\ result'.kind = "created" /\ result'.id = id
              /\ Len(es) = Len(EntriesOf(primary))
              /\ \E i \in 1..Len(es) :
                     /\ es[i].id = id /\ es[i].url = result'.inp.url
                     /\ TagsOf(primary')
                            = AppendTags(TagsOf(primary), es[i].tags, id)
                     /\ JsonKey(es[i].content_type)
                            \in DOMAIN CategoriesOf(primary')
                     /\ InSeq(id, CategoriesOf(primary')[
                                      JsonKey(es[i].content_type)])
              /\ \A n \in 1..3 :
                     DictSum(CountersOf(primary')[n])
                         >= DictSum(CountersOf(primary)[n])
              /\ \A n \in 2..3 :
                     DictSum(CountersOf(primary')[n])
                         = DictSum(CountersOf(primary)[n]) + 1]_vars

----------------------------------------------------------------------------
(* What detect_duplicates reports for the candidate inp over the file. *)
ReportFor(file, inp) ==
    Duplicates(EntriesOf(file), inp.url, inp.title, inp.content_summary)

ExactUrlMatch(file, inp) ==
    \E j \in 1..Len(ReportFor(file, inp)) :
        InSeq("Exact URL match", ReportFor(file, inp)[j].reasons)

(* C23: a create-entry call returns the duplicate report exactly when a  *)
(* stored entry has the url of the candidate, which is exactly when      *)
(* detect_duplicates reports an entry with the reason "Exact URL match"  *)
(* for it; and a candidate with a url that no stored entry has is        *)
(* inserted, with no I/O failure, even when detect_duplicates reports a  *)
(* stored entry with score 80 for it.                                    *)
C23_GuardIsUrlEquality ==
    [][CreateStep =>
          LET inp == result'.inp
          IN  /\ result'.kind = "duplicate" <=> HoldsUrl(primary, inp.url)
              /\ HoldsUrl(primary, inp.url) <=> ExactUrlMatch(primary, inp)
              /\ (/\ faults' = faults
                  /\ ~HoldsUrl(primary, inp.url)
                  /\ \E j \in 1..Len(ReportFor(primary, inp)) :
                         ReportFor(primary, inp)[j].similarity_score = 80)
                 => /\ result'.kind = "created"
                    /\ HoldsUrl(primary', inp.url)]_vars

----------------------------------------------------------------------------
(* C24: a create-entry call for a url that a stored entry has leaves the *)
(* primary file, with its indices, counters and last_updated, and every  *)
(* backup file as they were.                                             *)
C24_RejectedDuplicateChangesNothing ==
    [][(CreateStep /\ HoldsUrl(primary, result'.inp.url)) =>
          /\ result'.kind = "duplicate"
          /\ primary' = primary
          /\ backups' = backups
          /\ exports' = exports]_vars

(* A call was rejected as a duplicate in a later second than the last *)
(* save, over a catalog that has a backup.                            *)
C24_Witness ==
    /\ result.op = "create" /\ result.kind = "duplicate"
    /\ IsCatalogFile(primary)
    /\ primary.value.metadata.last_updated < now
    /\ backups # EmptyDict

----------------------------------------------------------------------------
(* How many times x occurs in seq. *)
Occurrences(x, seq) == Cardinality({i \in 1..Len(seq) : seq[i] = x})

(* Index new is index old with id appended n(k) times to the list of *)
(* each key k, and with no other change.                             *)
IndexExtended(old, new, id, n(_)) ==
    /\ DOMAIN new = DOMAIN old \cup {k \in DOMAIN new : n(k) > 0}
    /\ \A k \in DOMAIN new :
           new[k] = DictGet(old, k, <<>>) \o [i \in 1..n(k) |-> id]

(* Counters new are counters old with the counter of key one higher *)
(* and with no other change.                                        *)
CounterRaised(old, new, key) ==
    /\ DOMAIN new = DOMAIN old \cup {key}
    /\ \A k \in DOMAIN new :
           new[k] = DictGet(old, k, 0) + (IF k = key THEN 1 ELSE 0)

QualityBucket(score) ==
    IF score >= 8 THEN "excellent"
    ELSE IF score >= 6 THEN "good"
    ELSE IF score >= 4 THEN "fair" ELSE "poor"

(* C25: a create-entry call that succeeds appends the id of the entry   *)
(* once to the category list of its content type and once for each      *)
(* occurrence of a tag to the list of that tag, raises by one the       *)
(* counters of its content type, of its source domain and of its        *)
(* quality bucket, and changes no other list and no other counter.      *)
C25_ExactIndexUpdate ==
    [][(CreateStep /\ result'.kind = "created") =>
          \E i \in 1..Len(EntriesOf(primary')) :
              LET e == EntriesOf(primary')[i]
                  c == JsonKey(e.content_type)
                  TagTimes(t) == Occurrences(t, e.tags)
                  TypeTimes(k) == IF k = c THEN 1 ELSE 0
              IN  /\ e.id = result'.id /\ e.url = result'.inp.url
                  /\ IndexExtended(TagsOf(primary), TagsOf(primary'),
                                   e.id, TagTimes)
                  /\ IndexExtended(CategoriesOf(primary),
                                   CategoriesOf(primary'), e.id, TypeTimes)
                  /\ CounterRaised(CountersOf(primary)[1],
                                   CountersOf(primary')[1], c)
                  /\ CounterRaised(CountersOf(primary)[2],
                                   CountersOf(primary')[2], e.source_domain)
                  /\ CounterRaised(CountersOf(primary)[3],
                                   CountersOf(primary')[3],
                                   QualityBucket(e.quality_score))]_vars

----------------------------------------------------------------------------
(* The domain class of a source domain: academic for .edu or .ac.,     *)
(* otherwise government for .gov or .mil, otherwise organization for   *)
(* .org, otherwise commercial.                                         *)
DomainClass(domain) ==
    IF Contains(domain, <<".", "e", "d", "u">>)
       \/ Contains(domain, <<".", "a", "c", ".">>) THEN "academic"
    ELSE IF Contains(domain, <<".", "g", "o", "v">>)
            \/ Contains(domain, <<".", "m", "i", "l">>) THEN "government"
    ELSE IF Contains(domain, <<".", "o", "r", "g">>) THEN "organization"
    ELSE "commercial"

(* C26: the derived categories of an entry are its content type, its    *)
(* level category when the level is known, and one domain class, which  *)
(* is the domain class of its source domain.                            *)
C26_DomainClass ==
    result.op = "categories" =>
        LET e == result.report.entry
            cats == result.report.categories
            known == e.technical_level # JStr("unknown")
        IN  /\ Len(cats) = IF known THEN 3 ELSE 2
            /\ cats[1] = e.content_type
            /\ known => cats[2] = JStr("level_" \o e.technical_level.s)
            /\ cats[Len(cats)] = JStr(DomainClass(e.source_domain))

----------------------------------------------------------------------------
(* C27: an export call that succeeds writes a file that was not there *)
(* before the call, so that there is one export file more, and a call *)
(* that does not succeed leaves as many export files as there were.   *)
C27_OneNewFilePerExport ==
    [][ReadStep("export") =>
          /\ result'.kind = "exported" =>
                 /\ result'.report.file \notin DOMAIN exports
                 /\ Cardinality(DOMAIN exports')
                        = Cardinality(DOMAIN exports) + 1
          /\ result'.kind # "exported" =>
                 Cardinality(DOMAIN exports') = Cardinality(DOMAIN exports)]_vars

----------------------------------------------------------------------------
(* The catalogs on disk: the primary file and the backup files. *)
PersistedFiles == {primary} \cup {backups[b] : b \in DOMAIN backups}

UniqueUrls(file) ==
    \A i \in 1..Len(EntriesOf(file)), j \in 1..Len(EntriesOf(file)) :
        EntriesOf(file)[i].url = EntriesOf(file)[j].url => i = j

(* C28: in every catalog on disk that create-entry calls have written,   *)
(* in sequence or interleaved, with calls that loaded the same file      *)
(* content and with colliding ids, no two entries have the same url.     *)
C28_UrlUniqueness == \A file \in PersistedFiles : UniqueUrls(file)

(* Two calls with the same url and different ids loaded the same file    *)
(* content, both reported success, and the primary file holds the url.   *)
C28_Witness ==
    \E w \in Writers, v \in Writers :
        /\ w # v
        /\ pc[w] = "idle" /\ pc[v] = "idle"
        /\ loc[w].raced /\ loc[v].raced
        /\ loc[w].res = "created" /\ loc[v].res = "created"
        /\ loc[w].inp.url = loc[v].inp.url
        /\ loc[w].id # loc[v].id
        /\ Len(EntriesOf(primary)) = 2
        /\ HoldsUrl(primary, loc[v].inp.url)

----------------------------------------------------------------------------
(* A step in which writer w loads the primary file. *)
RaceLoadStep(w) == calls' = calls + 1 /\ pc[w] = "idle" /\ loc'[w] # loc[w]

(* Writer v has opened the primary file and not written it, and no other *)
(* writer has written the file since.                                    *)
Saving(v) == pc[v] = "opened" /\ ~loc[v].clobbered

(* C29: a load of the primary file while another call is writing it      *)
(* returns the document the file held before that save or the document   *)
(* that save writes, and not the empty catalog of a file that cannot be  *)
(* parsed; and so a catalog written over a catalog with entries holds    *)
(* an entry of it.                                                       *)
C29_SavesAtomicToLoads ==
    [][/\ \A w \in Writers, v \in Writers :
            (w # v /\ RaceLoadStep(w) /\ Saving(v)) =>
                LoadedContent(primary) \in
                    {LoadedContent(loc[v].before),
                     LoadedContent(JsonFile(Serialize(loc[v].catalog)))}
       /\ \A w \in Writers :
            (RaceWriteStep(w) /\ IsCatalogFile(primary') /\
             EntriesOf(loc[w].before) # <<>>) =>
                \E i \in 1..Len(EntriesOf(loc[w].before)) :
                    HoldsUrl(primary', EntriesOf(loc[w].before)[i].url)]_vars

----------------------------------------------------------------------------
(* The lengths of the lists of an index. *)
ListLengths(index) == [k \in DOMAIN index |-> Len(index[k])]

CountersAgree(file) ==
    LET stats == file.value.statistics
        categories == file.value.categories
    IN  /\ DictSum(stats.content_types) = DictSum(stats.sources)
        /\ DictSum(stats.sources) = DictSum(stats.quality_distribution)
        /\ DictSum(stats.quality_distribution) = DictSum(ListLengths(categories))
        /\ \A c \in (DOMAIN categories) \cup (DOMAIN stats.content_types) :
               Len(DictGet(categories, c, <<>>)) = DictGet(stats.content_types, c, 0)

(* C30: in every catalog on disk that create-entry calls have built from *)
(* an empty catalog, the content-type counters, the source counters and  *)
(* the quality counters have the same sum, which is the total length of  *)
(* the lists of the category index, and the list of each content type    *)
(* is as long as the counter of that content type says.                  *)
C30_CountersAgree ==
    \A file \in PersistedFiles : IsCatalogFile(file) => CountersAgree(file)
====
